---- MODULE Spec2Model ----
(***************************************************************************)
(* RBDMirrorStore (metrics/internal/cache/rbd-mirror.go): the store of rbd *)
(* mirror status per CephBlockPool UID, the per-namespace cache of rbd     *)
(* command inputs, and the goroutines that call Add, Update, Delete,       *)
(* Replace and Resync on it concurrently.                                  *)
(*                                                                         *)
(* A goroutine is a thread of Threads with a program counter; a step is    *)
(* one stretch of a handler between two points where another goroutine can *)
(* interleave observably (an access of shared state, an external call, the *)
(* mutex).  The Kubernetes API and the rbd command are the environment:    *)
(* what they answer is chosen at the call.                                 *)
(***************************************************************************)
EXTENDS Integers, Sequences, FiniteSets, TLC

\* ------------------------------------------------------------------ bounds
MaxListLen == 2        \* longest list handed to Replace
MaxResolveCount == 2   \* the count of successful lookups saturates here
MaxBootCalls == 2      \* how often writeCephConfig is run on one file system

\* The goroutines that call the store, and no goroutine (the mutex is free).
Threads == {"g1", "g2"}
None == "none"

\* ------------------------------------------------------------ the universe
UIDs == {"u1", "u2"}
Namespaces == {"ns1", "ns2", "ns3"}
\* opts.AllowedNamespaces, fixed at construction
allowedNamespaces == <<"ns1", "ns2">>
Healths == {"OK", "WARNING"}

Pool(u, n, ns, en) ==
    [kind |-> "pool", uid |-> u, name |-> n, ns |-> ns, enabled |-> en]
\* an object with metadata that is no CephBlockPool
OtherObj(u) ==
    [kind |-> "other", uid |-> u, name |-> "x", ns |-> "ns1", enabled |-> FALSE]
\* a value without object metadata: meta.Accessor fails on it
BadObj ==
    [kind |-> "bad", uid |-> "", name |-> "", ns |-> "", enabled |-> FALSE]
NoObj ==
    [kind |-> "none", uid |-> "", name |-> "", ns |-> "", enabled |-> FALSE]

\* The pool events the event source delivers.  u1 appears under two names
\* and namespaces, so that a record written for it can differ in every field.
PoolObjects ==
    { Pool("u1", "p1", "ns1", TRUE), Pool("u1", "p1", "ns1", FALSE),
      Pool("u2", "p2", "ns1", TRUE),
      Pool("u1", "p2", "ns2", TRUE),
      Pool("u2", "p1", "ns3", TRUE) }
Objects == PoolObjects \cup {OtherObj("u2"), BadObj}
\* The events of the concurrent runs, whose interleavings multiply: the pools
\* of ns1 and a value that is no object; and the items of their lists.
ConcurrentObjects ==
    { Pool("u1", "p1", "ns1", TRUE), Pool("u1", "p1", "ns1", FALSE),
      Pool("u2", "p2", "ns1", TRUE), BadObj }
ConcurrentItems == { Pool("u1", "p1", "ns1", TRUE) }

\* ------------------------------------------------- the external answers
\* Secrets(ns).Get("rook-ceph-mon"): not found, found without the key
\* "ceph-secret", or found with it.
SecretAnswers ==
    { [found |-> FALSE, haskey |-> FALSE, key |-> ""],
      [found |-> TRUE, haskey |-> FALSE, key |-> ""],
      [found |-> TRUE, haskey |-> TRUE, key |-> "k1"] }

\* The string under "csi-cluster-config-json": text that is no JSON, or the
\* JSON of a sequence of cluster records, each the sequence of its monitors.
NotJSON == [json |-> FALSE, doc |-> <<>>]
JSON(doc) == [json |-> TRUE, doc |-> doc]
ConfigData ==
    { NotJSON, JSON(<<>>), JSON(<< <<>>, <<"m2">> >>), JSON(<< <<"m1">> >>),
      JSON(<< <<"m1", "m2">>, <<"m2">> >>), JSON(<< <<"m2", "m1">>, <<"m1">> >>) }
\* ConfigMaps(ns).Get("rook-ceph-csi-config")
ConfigAnswersOf(D) ==
    { [found |-> FALSE, haskey |-> FALSE, data |-> NotJSON],
      [found |-> TRUE, haskey |-> FALSE, data |-> NotJSON] }
    \cup { [found |-> TRUE, haskey |-> TRUE, data |-> d] : d \in D }
ConfigAnswers == ConfigAnswersOf(ConfigData)
\* In the concurrent runs every valid configuration names the same monitor.
ConcurrentConfigAnswers ==
    ConfigAnswersOf(ConfigData \ { JSON(<< <<"m2", "m1">>, <<"m1">> >>) })

\* CombinedOutput of the rbd command: a failed run, or output that is the
\* JSON of a status with the given summary health, or output that is not.
CommandAnswers ==
    { [failed |-> TRUE, json |-> FALSE, health |-> ""],
      [failed |-> FALSE, json |-> FALSE, health |-> ""] }
    \cup { [failed |-> FALSE, json |-> TRUE, health |-> h] : h \in Healths }

\* --------------------------------------------------------------- helpers
EmptyMap == [x \in {} |-> x]
Put(m, k, v) == [x \in DOMAIN m \cup {k} |-> IF x = k THEN v ELSE m[x]]
\* Remove deleting under a key the map does not have.
RemoveNothing(m, k) == m
\* delete(m, k)
Remove(m, k) == [x \in DOMAIN m \ {k} |-> m[x]]
Range(s) == { s[i] : i \in DOMAIN s }
ListsOf(S) == UNION { [1..n -> S] : n \in 0..MaxListLen }

VARIABLES
    Store,            \* s.Store: pool UID -> RBDMirrorPoolStatusVerbose
    rbdCommandInput,  \* s.rbdCommandInput: namespace -> rbdCommandInput
    Mutex,            \* s.Mutex: the thread holding it, or None
    crashed,          \* the process died (fatal runtime error or panic)
    pc,               \* where each thread is
    top,              \* the store method each thread was called with
    obj,              \* the object of the Add, Delete or sweep step in progress
    list,             \* Replace: the items not yet handed to Add
    todo,             \* Resync: the keys the range loop has not yet visited
    input,            \* WithRBDCommandInput: the input it is assigning to the map
    mirrorStatus,     \* Add: the status rbdImageStatus returned
    ret,              \* the error the method returned
    \* history, for the statements about a call
    arg,              \* the list Replace was called with
    pre,              \* Store when the sweep in progress took the mutex
    gets,             \* the API reads of this call, in order
    cmds,             \* the rbd commands of this call, in order, with results
    wrote,            \* what this Add or Delete did to Store: "none", "created",
                      \* "replaced", "removed"
    resolved,         \* per namespace, how often WithRBDCommandInput succeeded
    limit,            \* how many calls the event source has in progress at once
    answers,          \* what the API reads of the WithRBDCommandInput call in
                      \* progress, or just failed, answered
    overtaken,        \* the Add in progress on the thread began before a Delete
                      \* of its UID, or a clearing of the map, that has happened
    result,           \* what the List, ListKeys, Get or GetByKey call returned
    \* the local files of writeCephConfig
    fs,               \* which of /etc/ceph, ceph.conf and keyring exist, and
                      \* what the two files hold
    boot,             \* where writeCephConfig is, and what it returned
    \* the cluster of ensureToolsDeployment
    cluster,          \* the flags, and the rook-ceph-tools deployment if any
    recon             \* the last call of ensureToolsDeployment

vars == << Store, rbdCommandInput, Mutex, crashed, pc, top, obj, list, todo,
           input, mirrorStatus, ret, arg, pre, gets, cmds, wrote, resolved, limit,
           answers, result, overtaken, fs, boot, cluster, recon >>

bootVars == << fs, boot >>
toolsVars == << cluster, recon >>
storeVars == << Store, rbdCommandInput, Mutex, crashed, pc, top, obj, list,
               todo, input, mirrorStatus, ret, arg, pre, gets, cmds, wrote,
               resolved, limit, answers, result, overtaken >>

\* ------------------------------------------------------- pure functions
\* json.Unmarshal of the configmap string into []csiClusterConfig
UnmarshalClusterConfig(data) ==
    IF data.json THEN [err |-> FALSE, clusterConfig |-> data.doc]
    ELSE [err |-> TRUE, clusterConfig |-> <<>>]

NoInput == [monitor |-> "", id |-> "", key |-> ""]

\* Allowed without the loop over s.allowedNamespaces.
AllowedAlways(namespace) == TRUE

\* The namespace is one of s.allowedNamespaces (the loop of lines 149-154).
Allowed(namespace) ==
    \E i \in DOMAIN allowedNamespaces : allowedNamespaces[i] = namespace

\* WithRBDCommandInput taking the last monitor of the last cluster record.
WithRBDCommandInputLastMonitor(namespace, secret, configmap) ==
    LET cc == UnmarshalClusterConfig(configmap.data)
        ok == /\ Allowed(namespace) /\ secret.found /\ secret.haskey
              /\ configmap.found /\ configmap.haskey /\ ~cc.err
              /\ Len(cc.clusterConfig) > 0
        last == cc.clusterConfig[Len(cc.clusterConfig)]
    IN  IF ok /\ Len(last) > 0
        THEN [err |-> "nil",
              input |-> [monitor |-> last[Len(last)], id |-> "admin",
                         key |-> secret.key],
              gets |-> << <<"secret", namespace>>, <<"configmap", namespace>> >>]
        ELSE [err |-> "NoMonitors", input |-> NoInput,
              gets |-> << <<"secret", namespace>>, <<"configmap", namespace>> >>]

\* WithRBDCommandInput up to the assignment of line 196: the error it
\* returns ("nil" for none), the input it is about to store, and the API
\* reads it made, given what the two reads answer.
WithRBDCommandInput(namespace, secret, configmap) ==
    LET sg == << <<"secret", namespace>> >>
        cg == sg \o << <<"configmap", namespace>> >>
        fail(e, g) == [err |-> e, input |-> NoInput, gets |-> g]
        cc == UnmarshalClusterConfig(configmap.data)
    IN  IF ~Allowed(namespace) THEN fail("NotAllowedNamespace", <<>>)
        ELSE IF ~secret.found THEN fail("SecretLookupError", sg)
        ELSE IF ~secret.haskey THEN fail("SecretFieldMissing", sg)
        ELSE IF ~configmap.found THEN fail("ConfigLookupError", cg)
        ELSE IF ~configmap.haskey THEN fail("ConfigFieldMissing", cg)
        ELSE IF cc.err THEN fail("ConfigParseError", cg)
        ELSE IF Len(cc.clusterConfig) = 0 THEN fail("NoClusterConfig", cg)
        ELSE IF Len(cc.clusterConfig[1]) = 0 THEN fail("NoMonitors", cg)
        ELSE [err |-> "nil",
              input |-> [monitor |-> cc.clusterConfig[1][1],
                         id |-> "admin",
                         key |-> secret.key],
              gets |-> cg]

\* The zero RBDMirrorStatusVerbose, and the status with a summary health.
ZeroStatus == ""

\* rbdImageStatus: whether it runs the command at all, and what it returns
\* for the command's answer.
InputSpecified(in) == ~(in.monitor = "" /\ in.id = "" /\ in.key = "")

rbdImageStatus(answer) ==
    IF answer.failed THEN [err |-> "CommandExecutionError", status |-> ZeroStatus]
    ELSE IF ~answer.json THEN [err |-> "ResponseParseError", status |-> ZeroStatus]
    ELSE [err |-> "nil", status |-> answer.health]

\* AddRecord with the status left at its zero value.
AddRecordZero(pool, status) ==
    [PoolName |-> pool.name, PoolNamespace |-> pool.ns, MirrorStatus |-> ZeroStatus]

\* The record Add stores for a pool (lines 233-237).
AddRecord(pool, status) ==
    [PoolName |-> pool.name, PoolNamespace |-> pool.ns, MirrorStatus |-> status]

\* ResyncRecord built from the zero record instead of the one in the map.
ResyncRecordLosesPool(poolStatusVerbose, status) ==
    [PoolName |-> "", PoolNamespace |-> "", MirrorStatus |-> status]

\* The record Resync stores over an old one (lines 311-315).
ResyncRecord(poolStatusVerbose, status) ==
    [PoolName |-> poolStatusVerbose.PoolName,
     PoolNamespace |-> poolStatusVerbose.PoolNamespace,
     MirrorStatus |-> status]

\* ------------------------------------------------- writeCephConfig
\* The local files: cephConfigRoot is missing, a directory, or something
\* that is no directory; cephConfigPath and keyRing are missing or hold
\* some content.  cephConfig is the fixed content of line 104; a file that
\* was created and not written holds "".
Absent == "absent"
cephConfig == "[global] auth = cephx"
ConfContents == { cephConfig, "other", "" }
KeyringContents == { "", "key" }
NoFiles(root) == [root |-> root, conf |-> Absent, keyring |-> Absent]
FileSystems ==
    { NoFiles(Absent), NoFiles("file") }
    \cup { [root |-> "dir", conf |-> c, keyring |-> k] :
             c \in ConfContents \cup {Absent}, k \in KeyringContents \cup {Absent} }
\* The files NewRBDMirrorStore leaves where there were none.
FreshFiles == [root |-> "dir", conf |-> cephConfig, keyring |-> ""]

\* writeCephConfig returns err.
BootReturns(err) ==
    boot' = [boot EXCEPT !.pc = "returned", !.err = err, !.clean = (err = "nil")]
BootGoes(to) == boot' = [boot EXCEPT !.pc = to]

\* NewRBDMirrorStore calls writeCephConfig (line 134); the process is
\* started again after it has ended.
writeCephConfig ==
    /\ boot.pc = "idle"
    /\ boot.calls < MaxBootCalls
    /\ boot' = [boot EXCEPT !.pc = "root", !.err = "none", !.before = fs,
                            !.calls = @ + 1]
    /\ UNCHANGED << fs, storeVars, toolsVars >>

\* createCephConfigRoot (lines 369-371): os.MkdirAll makes the directory
\* unless it is there, and fails on a path that is no directory, or for a
\* reason of the system's.
createCephConfigRoot ==
    /\ boot.pc = "root"
    /\ \E fault \in BOOLEAN :
         IF fault \/ fs.root = "file"
         THEN BootReturns("MkdirError") /\ UNCHANGED fs
         ELSE fs' = [fs EXCEPT !.root = "dir"] /\ BootGoes("stat")
    /\ UNCHANGED << storeVars, toolsVars >>

\* StatCephConfig finding no file whatever is there.
StatCephConfigSeesNone ==
    /\ boot.pc = "stat"
    /\ BootGoes("write")
    /\ UNCHANGED << fs, storeVars, toolsVars >>

\* os.Stat(cephConfigPath) of line 390: the file is missing, it is there
\* (err is nil and line 394 goes on to the keyring), or Stat fails for
\* another reason and line 395 returns that error.
StatCephConfig ==
    /\ boot.pc = "stat"
    /\ \E fault \in BOOLEAN :
         IF fault THEN BootReturns("StatError")
         ELSE IF fs.conf = Absent THEN BootGoes("write")
         ELSE BootGoes("keyring")
    /\ UNCHANGED << fs, storeVars, toolsVars >>

\* os.WriteFile(cephConfigPath, cephConfig, 0o600) of line 391: it opens the
\* file with O_CREATE|O_TRUNC and writes; when it fails, the file was not
\* made or was made and is not written.
WriteCephConfigFile ==
    /\ boot.pc = "write"
    /\ \/ fs' = [fs EXCEPT !.conf = cephConfig] /\ BootGoes("keyring")
       \/ \E left \in {fs.conf, ""} :
             fs' = [fs EXCEPT !.conf = left] /\ BootReturns("WriteError")
    /\ UNCHANGED << storeVars, toolsVars >>

\* createKeyRingFile (lines 374-381), whose result writeCephConfig returns
\* (line 399): os.Create when Stat says the file is missing.
createKeyRingFile ==
    /\ boot.pc = "keyring"
    /\ \E fault \in BOOLEAN :
         IF fs.keyring = Absent
         THEN IF fault
              THEN BootReturns("CreateError") /\ UNCHANGED fs
              ELSE fs' = [fs EXCEPT !.keyring = ""] /\ BootReturns("nil")
         ELSE /\ BootReturns(IF fault THEN "StatError" ELSE "nil")
              /\ UNCHANGED fs
    /\ UNCHANGED << storeVars, toolsVars >>

\* The caller has the result: NewRBDMirrorStore panics on an error (line
\* 137) and goes on otherwise.
BootReturn ==
    /\ boot.pc = "returned"
    /\ BootGoes("idle")
    /\ UNCHANGED << fs, storeVars, toolsVars >>

BootIdle(calls, clean) ==
    [pc |-> "idle", err |-> "none", before |-> NoFiles("none"), calls |-> calls,
     clean |-> clean]

\* ------------------------------------------- ensureToolsDeployment
\* (controllers/storagecluster/cephtoolbox.go)  The cluster as the reconciler
\* sees it: sc.Spec.EnableCephTools, the OCSInitialization "ocsinit" (missing,
\* or with EnableCephTools off or on), the spec sc.NewToolsDeployment yields
\* for the tolerations of sc, and the spec of the deployment
\* "rook-ceph-tools" if there is one.
DeploymentSpecs == { "spec1", "spec2" }
OCSInits == { Absent, "off", "on" }
Clusters ==
    [ enable : BOOLEAN, ocsinit : OCSInits, desired : DeploymentSpecs,
      deployment : DeploymentSpecs \cup {Absent} ]

\* The toolbox is enabled on the StorageCluster or on ocsinit (line 54); the
\* zero OCSInitialization of a failed Get has it off.
ToolsEnabled(c) == c.enable \/ c.ocsinit = "on"

\* What a call does to the cluster when no API call fails: the error it
\* returns, the write it makes, and the deployment it leaves.
Reconciled(c) ==
    IF ToolsEnabled(c)
    THEN IF c.deployment = Absent
         THEN [write |-> "create", deployment |-> c.desired]
         ELSE IF c.deployment # c.desired
         THEN [write |-> "update", deployment |-> c.desired]
         ELSE [write |-> "none", deployment |-> c.deployment]
    ELSE IF c.deployment # Absent
         THEN [write |-> "delete", deployment |-> Absent]
         ELSE [write |-> "none", deployment |-> c.deployment]

\* Where an API call of the reconciler can fail: the Get of the deployment
\* (line 37, an error that is not NotFound), the Get of ocsinit (line 49,
\* likewise), SetOwnerReference (line 58), and the write.
Faults == { "none", "GetDeployment", "GetOCSInit", "SetOwnerReference", "Write" }

\* What is remembered of the last call: the API call that failed in it, the
\* error it returned, its write, the deployment it found, whether it
\* repeated a call that had succeeded on the same cluster, and whether it
\* succeeded itself with the cluster unchanged since.
NoCall == [fault |-> "none", err |-> "none", write |-> "none", sent |-> FALSE,
           before |-> Absent, again |-> FALSE, settled |-> FALSE]

\* EnsureTools taking every API call for a success.
EnsuresDespiteErrors(c, fault) ==
    LET r == Reconciled(c) IN
    [err |-> "nil", write |-> r.write, sent |-> r.write # "none",
     deployment |-> r.deployment]

\* ensureToolsDeployment(sc), lines 22-78, as a function of the cluster and
\* of the API call that fails, if one does: the error returned, the write
\* sent and whether it was sent, and the deployment afterwards.
EnsureTools(c, fault) ==
    LET r == Reconciled(c)
        fails(e) == [err |-> e, write |-> "none", sent |-> FALSE,
                     deployment |-> c.deployment]
    IN  IF fault = "GetDeployment" THEN fails("GetDeploymentError")
        ELSE IF fault = "GetOCSInit" THEN fails("GetOCSInitError")
        ELSE IF fault = "SetOwnerReference" /\ ToolsEnabled(c)
        THEN fails("SetOwnerReferenceError")
        ELSE IF fault = "Write" /\ r.write # "none"
        THEN [err |-> "WriteError", write |-> r.write, sent |-> TRUE,
              deployment |-> c.deployment]
        ELSE [err |-> "nil", write |-> r.write, sent |-> r.write # "none",
              deployment |-> r.deployment]

\* The reconciler calls ensureToolsDeployment.
ensureToolsDeployment ==
    /\ \E fault \in Faults :
         LET e == EnsureTools(cluster, fault) IN
         /\ cluster' = [cluster EXCEPT !.deployment = e.deployment]
         /\ recon' = [fault |-> fault, err |-> e.err, write |-> e.write,
                      sent |-> e.sent, before |-> cluster.deployment,
                      again |-> recon.settled, settled |-> e.err = "nil"]
    /\ UNCHANGED << storeVars, bootVars >>

\* Someone changes the StorageCluster, ocsinit or the deployment.
ClusterChanges ==
    /\ \E c \in Clusters :
         /\ c # cluster
         /\ cluster' = c
    /\ recon' = [recon EXCEPT !.settled = FALSE]
    /\ UNCHANGED << storeVars, bootVars >>

\* ------------------------------------------------ the read methods
\* What List, ListKeys, Get and GetByKey return (lines 260-274): nil, and
\* (nil, false, nil).
NoItem == [kind |-> "nil"]
NoOut == [items |-> <<>>, item |-> NoItem, exists |-> FALSE]
List == <<>>
ListKeys == <<>>
\* Get looking the object's UID up in s.Store.
GetFromStore(o) ==
    IF o.uid \in DOMAIN Store
    THEN [item |-> Store[o.uid], exists |-> TRUE, err |-> "nil"]
    ELSE [item |-> NoItem, exists |-> FALSE, err |-> "nil"]
Get(o) == [item |-> NoItem, exists |-> FALSE, err |-> "nil"]
GetByKey(key) == [item |-> NoItem, exists |-> FALSE, err |-> "nil"]

\* What is remembered of the Add in progress on a thread: the threads whose
\* Replace was called while it was in progress, and whether a Delete of its
\* UID, or the clearing of the map by one of those Replaces, has since run.
NotOvertaken == [seen |-> {}, yes |-> FALSE]

\* ------------------------------------------------------------ the state
\* The state NewRBDMirrorStore returns, with every goroutine idle.
InitStore ==
    /\ Store = EmptyMap
    /\ rbdCommandInput = EmptyMap
    /\ Mutex = None
    /\ crashed = FALSE
    /\ pc = [t \in Threads |-> "idle"]
    /\ top = [t \in Threads |-> "none"]
    /\ obj = [t \in Threads |-> NoObj]
    /\ list = [t \in Threads |-> <<>>]
    /\ todo = [t \in Threads |-> {}]
    /\ input = [t \in Threads |-> NoInput]
    /\ mirrorStatus = [t \in Threads |-> ZeroStatus]
    /\ ret = [t \in Threads |-> "none"]
    /\ arg = [t \in Threads |-> <<>>]
    /\ pre = EmptyMap
    /\ gets = [t \in Threads |-> <<>>]
    /\ cmds = [t \in Threads |-> <<>>]
    /\ wrote = [t \in Threads |-> "none"]
    /\ resolved = [ns \in Namespaces |-> 0]
    /\ answers = [t \in Threads |-> <<>>]
    /\ result = [t \in Threads |-> NoOut]
    /\ overtaken = [t \in Threads |-> NotOvertaken]

\* writeCephConfig has run where there were no files, and returned nil.
Booted == fs = FreshFiles /\ boot = BootIdle(1, TRUE)
\* The reconciler of the StorageCluster is another program.
NoCluster ==
    /\ cluster = [enable |-> FALSE, ocsinit |-> Absent, desired |-> "spec1",
                  deployment |-> Absent]
    /\ recon = NoCall

\* Calls arrive concurrently.
Init == InitStore /\ limit = Cardinality(Threads) /\ Booted /\ NoCluster
\* Calls arrive one at a time.
InitSerial == InitStore /\ limit = 1 /\ Booted /\ NoCluster
\* writeCephConfig is about to run for the first time, on any files.
InitBoot ==
    /\ InitStore /\ limit = 0 /\ NoCluster
    /\ fs \in FileSystems
    /\ boot = BootIdle(0, FALSE)
\* The reconciler is about to run for the first time, on any cluster.
InitTools ==
    /\ InitStore /\ limit = 0 /\ Booted
    /\ cluster \in Clusters
    /\ recon = NoCall

\* What a run draws from: the events, the lists of Replace, and the answers
\* of ConfigMaps(ns).Get.
Events == IF limit = 1 THEN Objects ELSE ConcurrentObjects
EventLists == IF limit = 1 THEN ListsOf(Objects) ELSE ListsOf(ConcurrentItems)
Configmaps == IF limit = 1 THEN ConfigAnswers ELSE ConcurrentConfigAnswers

\* Lock that does not wait for the holder of the mutex.
LockNoWait(t) == Mutex' = t

\* Unlock that leaves the mutex with its holder.
UnlockNever(t) == Mutex' = Mutex

\* s.Mutex.Lock() and s.Mutex.Unlock()
Lock(t) == Mutex = None /\ Mutex' = t
Unlock(t) == Mutex' = None

\* ------------------------------------ unsynchronised access of the map
\* s.rbdCommandInput is read and assigned without the mutex (Add), so an
\* access can overlap the assignment of line 196 by another goroutine.  Go
\* leaves that undefined: the runtime may end the process ("concurrent map
\* read and map write", "concurrent map writes"), or the access sees the map
\* as it was before the assignment or as it is after it.
Racing(t) == { w \in Threads \ {t} : pc[w] = "wrci_write" }

Entry(ok, val) == [crash |-> FALSE, ok |-> ok, val |-> val]
MapRead(t, namespace) ==
    LET asis == IF namespace \in DOMAIN rbdCommandInput
                THEN Entry(TRUE, rbdCommandInput[namespace])
                ELSE Entry(FALSE, NoInput)
    IN  IF Racing(t) = {} THEN {asis}
        ELSE {asis, [crash |-> TRUE, ok |-> FALSE, val |-> NoInput]}
             \cup { Entry(TRUE, input[w]) :
                      w \in { x \in Racing(t) : obj[x].ns = namespace } }

\* The process ends: nothing runs any more.
Die ==
    /\ crashed' = TRUE
    /\ UNCHANGED << Store, rbdCommandInput, Mutex, pc, top, obj, list, todo,
                    input, mirrorStatus, ret, arg, pre, gets, cmds, wrote,
                    resolved, limit,
                    answers, result, overtaken, bootVars, toolsVars >>

\* Thread x is in an Add, of a call of Add or Update or of the loop of
\* Replace, that has not come to its store step.
InAdd(x) ==
    /\ top[x] \in {"Add", "Replace"}
    /\ pc[x] \in {"wrci", "wrci_write", "exec", "cmd", "add_lock"}

\* ------------------------------------------------------------- the calls
\* The event source may start a call on goroutine t.
CanCall(t) ==
    /\ ~crashed
    /\ pc[t] = "idle"
    /\ Cardinality({ x \in Threads : pc[x] # "idle" }) < limit

\* The method returns err to its caller.
Returns(t, err) ==
    /\ pc' = [pc EXCEPT ![t] = "done"]
    /\ ret' = [ret EXCEPT ![t] = err]

\* The caller has the result and the goroutine is free again.
Return(t) ==
    /\ ~crashed
    /\ pc[t] = "done"
    /\ pc' = [pc EXCEPT ![t] = "idle"]
    /\ top' = [top EXCEPT ![t] = "none"]
    /\ obj' = [obj EXCEPT ![t] = NoObj]
    /\ list' = [list EXCEPT ![t] = <<>>]
    /\ arg' = [arg EXCEPT ![t] = <<>>]
    /\ ret' = [ret EXCEPT ![t] = "none"]
    /\ gets' = [gets EXCEPT ![t] = <<>>]
    /\ cmds' = [cmds EXCEPT ![t] = <<>>]
    /\ wrote' = [wrote EXCEPT ![t] = "none"]
    /\ answers' = [answers EXCEPT ![t] = <<>>]
    /\ result' = [result EXCEPT ![t] = NoOut]
    /\ overtaken' = [overtaken EXCEPT ![t] = NotOvertaken]
    /\ UNCHANGED << Store, rbdCommandInput, Mutex, crashed, todo, input,
                    mirrorStatus, pre, resolved, limit,
                    bootVars, toolsVars >>

\* ----------------------------------------------------------- Add, Update
\* AddReturns with the loop of Replace going on after an error.
AddReturnsContinues(t, method, err) ==
    IF method = "Replace"
    THEN pc' = [pc EXCEPT ![t] = "rep_loop"] /\ UNCHANGED ret
    ELSE Returns(t, err)

\* Add returns err: to the caller, or to the loop of Replace (lines
\* 281-286), which goes on with the next item when err is nil and returns
\* err otherwise.
AddReturns(t, method, err) ==
    IF method = "Replace" /\ err = "nil"
    THEN pc' = [pc EXCEPT ![t] = "rep_loop"] /\ UNCHANGED ret
    ELSE Returns(t, err)

\* ItemFails with the record stored before the error is looked at.
ItemFailsStoresZero(t, err) ==
    /\ IF top[t] = "Resync"
       THEN pc' = [pc EXCEPT ![t] = "rs_loop"] /\ UNCHANGED ret
       ELSE AddReturns(t, top[t], err)
    /\ overtaken' = [overtaken EXCEPT ![t] = NotOvertaken]
    /\ Store' = Put(Store, obj[t].uid,
                    [PoolName |-> obj[t].name, PoolNamespace |-> obj[t].ns,
                     MirrorStatus |-> ZeroStatus])

\* ItemFails with the record of the failed item dropped from the store.
ItemFailsEvicts(t, err) ==
    /\ IF top[t] = "Resync"
       THEN pc' = [pc EXCEPT ![t] = "rs_loop"] /\ UNCHANGED ret
       ELSE AddReturns(t, top[t], err)
    /\ overtaken' = [overtaken EXCEPT ![t] = NotOvertaken]
    /\ Store' = [u \in DOMAIN Store \ {obj[t].uid} |-> Store[u]]

\* An item's credentials or status could not be had.  Add returns the
\* error (lines 221 and 227); the loop of Resync logs it and continues with
\* the next record (lines 301 and 308).  Neither touches s.Store.
ItemFails(t, err) ==
    /\ IF top[t] = "Resync"
       THEN pc' = [pc EXCEPT ![t] = "rs_loop"] /\ UNCHANGED ret
       ELSE AddReturns(t, top[t], err)
    /\ overtaken' = [overtaken EXCEPT ![t] = NotOvertaken]
    /\ UNCHANGED Store

\* Skips with the check of Mirroring.Enabled left out.
NeverSkips(pool) == FALSE

\* Add skips the pool: mirroring is disabled (lines 212-215).
Skips(pool) == ~pool.enabled

\* Lines 202-217 for object o, the argument of Add or the item rest was
\* the tail of in the list of Replace: the checks of the object, and the
\* look into the map of command inputs for the pool's namespace.
AddBody(t, method, o, rest, a) ==
    IF o.kind # "pool" \/ Skips(o)
    THEN /\ AddReturns(t, method, IF o.kind = "bad" THEN "AccessorError"
                                  ELSE IF o.kind # "pool" THEN "TypeMismatch"
                                  ELSE "nil")
         /\ top' = [top EXCEPT ![t] = method]
         /\ obj' = [obj EXCEPT ![t] = o]
         /\ list' = [list EXCEPT ![t] = rest]
         /\ arg' = [arg EXCEPT ![t] = a]
         /\ wrote' = [wrote EXCEPT ![t] = "none"]
         /\ overtaken' = [overtaken EXCEPT ![t] = NotOvertaken]
         /\ UNCHANGED << Store, rbdCommandInput, Mutex, crashed, todo, input,
                         mirrorStatus, pre, gets, cmds, resolved, limit,
                         answers, result, bootVars, toolsVars >>
    ELSE \E r \in MapRead(t, o.ns) :
           IF r.crash THEN Die
           ELSE /\ pc' = [pc EXCEPT ![t] = IF r.ok THEN "exec" ELSE "wrci"]
                /\ top' = [top EXCEPT ![t] = method]
                /\ obj' = [obj EXCEPT ![t] = o]
                /\ list' = [list EXCEPT ![t] = rest]
                /\ arg' = [arg EXCEPT ![t] = a]
                /\ wrote' = [wrote EXCEPT ![t] = "none"]
                /\ overtaken' = [overtaken EXCEPT ![t] = NotOvertaken]
                /\ UNCHANGED << Store, rbdCommandInput, Mutex, crashed, todo,
                                input, mirrorStatus, ret, pre, gets, cmds,
                                resolved, limit, answers, result, bootVars,
                                toolsVars >>

Add(t) == CanCall(t) /\ \E o \in Events : AddBody(t, "Add", o, <<>>, <<>>)

\* Update returns s.Add(obj)
Update(t) == Add(t)

\* Resolve with the zero input assigned to the map when the lookup fails.
ResolveCachesFailure(t) ==
    /\ ~crashed
    /\ pc[t] = "wrci"
    /\ \E secret \in SecretAnswers, configmap \in Configmaps :
         LET w == WithRBDCommandInput(obj[t].ns, secret, configmap)
             read == IF Len(w.gets) = 0 THEN <<>>
                     ELSE IF Len(w.gets) = 1 THEN <<secret>>
                     ELSE <<secret, configmap>>
         IN
         IF w.err # "nil"
         THEN /\ ItemFails(t, w.err)
              /\ gets' = [gets EXCEPT ![t] = @ \o w.gets]
              /\ answers' = [answers EXCEPT ![t] = read]
              /\ rbdCommandInput' = Put(rbdCommandInput, obj[t].ns, NoInput)
              /\ UNCHANGED << Mutex, crashed, top, obj, list,
                              todo, input, mirrorStatus, arg, pre, cmds, wrote,
                              resolved, limit, result, bootVars, toolsVars >>
         ELSE \E fatal \in IF Racing(t) = {} THEN {FALSE} ELSE {FALSE, TRUE} :
                IF fatal THEN Die
                ELSE /\ pc' = [pc EXCEPT ![t] = "wrci_write"]
                     /\ input' = [input EXCEPT ![t] = w.input]
                     /\ gets' = [gets EXCEPT ![t] = @ \o w.gets]
                     /\ answers' = [answers EXCEPT ![t] = read]
                     /\ resolved' =
                          [resolved EXCEPT ![obj[t].ns] =
                              IF @ < MaxResolveCount THEN @ + 1 ELSE @]
                     /\ UNCHANGED << Store, rbdCommandInput, Mutex, crashed,
                                     top, obj, list, todo, mirrorStatus, ret,
                                     arg, pre, cmds, wrote, limit, result, overtaken, bootVars,
                                     toolsVars >>

\* WithRBDCommandInput, called by Add (line 218) or Resync (line 298), up
\* to the start of the assignment of line 196.
Resolve(t) ==
    /\ ~crashed
    /\ pc[t] = "wrci"
    /\ \E secret \in SecretAnswers, configmap \in Configmaps :
         LET w == WithRBDCommandInput(obj[t].ns, secret, configmap)
             read == IF Len(w.gets) = 0 THEN <<>>
                     ELSE IF Len(w.gets) = 1 THEN <<secret>>
                     ELSE <<secret, configmap>>
         IN
         IF w.err # "nil"
         THEN /\ ItemFails(t, w.err)
              /\ gets' = [gets EXCEPT ![t] = @ \o w.gets]
              /\ answers' = [answers EXCEPT ![t] = read]
              /\ UNCHANGED << rbdCommandInput, Mutex, crashed, top, obj, list,
                              todo, input, mirrorStatus, arg, pre, cmds, wrote,
                              resolved, limit, result, bootVars, toolsVars >>
         ELSE \E fatal \in IF Racing(t) = {} THEN {FALSE} ELSE {FALSE, TRUE} :
                IF fatal THEN Die
                ELSE /\ pc' = [pc EXCEPT ![t] = "wrci_write"]
                     /\ input' = [input EXCEPT ![t] = w.input]
                     /\ gets' = [gets EXCEPT ![t] = @ \o w.gets]
                     /\ answers' = [answers EXCEPT ![t] = read]
                     /\ resolved' =
                          [resolved EXCEPT ![obj[t].ns] =
                              IF @ < MaxResolveCount THEN @ + 1 ELSE @]
                     /\ UNCHANGED << Store, rbdCommandInput, Mutex, crashed,
                                     top, obj, list, todo, mirrorStatus, ret,
                                     arg, pre, cmds, wrote, limit, result, overtaken, bootVars,
                                     toolsVars >>

\* The assignment of line 196 completes, and WithRBDCommandInput returns nil.
ResolveStore(t) ==
    /\ ~crashed
    /\ pc[t] = "wrci_write"
    /\ rbdCommandInput' = Put(rbdCommandInput, obj[t].ns, input[t])
    /\ input' = [input EXCEPT ![t] = NoInput]
    /\ pc' = [pc EXCEPT ![t] = "exec"]
    /\ answers' = [answers EXCEPT ![t] = <<>>]
    /\ UNCHANGED << Store, Mutex, crashed, top, obj, list, todo, mirrorStatus,
                    ret, arg, pre, gets, cmds, wrote, resolved, limit,
                    result, overtaken, bootVars, toolsVars >>

\* Lines 225 and 305: the input of the namespace is read from the map and
\* rbdImageStatus starts the rbd command with it.  A missing entry is a nil
\* pointer, which rbdImageStatus dereferences.
Command(uid, pool, namespace, in) ==
    [uid |-> uid, pool |-> pool, ns |-> namespace, in |-> in, out |-> "running"]

Exec(t) ==
    /\ ~crashed
    /\ pc[t] = "exec"
    /\ \E r \in MapRead(t, obj[t].ns) :
         IF r.crash \/ ~r.ok THEN Die
         ELSE /\ IF InputSpecified(r.val)
                 THEN /\ pc' = [pc EXCEPT ![t] = "cmd"]
                      /\ cmds' = [cmds EXCEPT ![t] =
                            Append(@, Command(obj[t].uid, obj[t].name,
                                              obj[t].ns, r.val))]
                      /\ UNCHANGED << Store, ret, overtaken >>
                 ELSE /\ ItemFails(t, "IncompleteCredentials")
                      /\ UNCHANGED cmds
              /\ UNCHANGED << rbdCommandInput, Mutex, crashed, top, obj,
                              list, todo, input, mirrorStatus, arg, pre, gets,
                              wrote, resolved, limit, answers, result,
                              bootVars, toolsVars >>

\* The rbd command returns and rbdImageStatus decodes its output.  Add goes
\* on to take the mutex (line 230); Resync, which holds it, stores the new
\* record (lines 311-315).
Returned(log, out) == [log EXCEPT ![Len(log)].out = out]

CommandReturns(t) ==
    /\ ~crashed
    /\ pc[t] = "cmd"
    /\ \E answer \in CommandAnswers :
         LET res == rbdImageStatus(answer) IN
         IF res.err # "nil"
         THEN /\ ItemFails(t, res.err)
              /\ cmds' = [cmds EXCEPT ![t] = Returned(@, res.err)]
              /\ UNCHANGED mirrorStatus
         ELSE /\ cmds' = [cmds EXCEPT ![t] = Returned(@, res.status)]
              /\ UNCHANGED << ret, overtaken >>
              /\ IF top[t] = "Resync"
                 THEN /\ Store' = [Store EXCEPT ![obj[t].uid] =
                                      ResyncRecord(@, res.status)]
                      /\ pc' = [pc EXCEPT ![t] = "rs_loop"]
                      /\ UNCHANGED mirrorStatus
                 ELSE /\ mirrorStatus' = [mirrorStatus EXCEPT ![t] = res.status]
                      /\ pc' = [pc EXCEPT ![t] = "add_lock"]
                      /\ UNCHANGED Store
    /\ UNCHANGED << rbdCommandInput, Mutex, crashed, top, obj, list, todo,
                    input, arg, pre, gets, wrote, resolved, limit,
                    answers, result, bootVars, toolsVars >>

\* Line 230
AddLock(t) ==
    /\ ~crashed
    /\ pc[t] = "add_lock"
    /\ Lock(t)
    /\ pc' = [pc EXCEPT ![t] = "add_store"]
    /\ UNCHANGED << Store, rbdCommandInput, crashed, top, obj, list, todo,
                    input, mirrorStatus, ret, arg, pre, gets, cmds, wrote,
                    resolved, limit,
                    answers, result, overtaken, bootVars, toolsVars >>

\* Lines 233-239, and the deferred Unlock
AddStore(t) ==
    /\ ~crashed
    /\ pc[t] = "add_store"
    /\ Store' = Put(Store, obj[t].uid, AddRecord(obj[t], mirrorStatus[t]))
    /\ wrote' = [wrote EXCEPT ![t] =
                    IF obj[t].uid \in DOMAIN Store THEN "replaced" ELSE "created"]
    /\ mirrorStatus' = [mirrorStatus EXCEPT ![t] = ZeroStatus]
    /\ Unlock(t)
    /\ AddReturns(t, top[t], "nil")
    /\ overtaken' = [overtaken EXCEPT ![t] = NotOvertaken]
    /\ UNCHANGED << rbdCommandInput, crashed, top, obj, list, todo, input,
                    arg, pre, gets, cmds, resolved, limit,
                    answers, result, bootVars, toolsVars >>

\* ----------------------------------------------------------------- Delete
\* Lines 247-250: meta.Accessor
Delete(t) ==
    /\ CanCall(t)
    /\ \E o \in Events :
         /\ top' = [top EXCEPT ![t] = "Delete"]
         /\ obj' = [obj EXCEPT ![t] = o]
         /\ IF o.kind = "bad"
            THEN Returns(t, "AccessorError")
            ELSE pc' = [pc EXCEPT ![t] = "del_lock"] /\ UNCHANGED ret
    /\ UNCHANGED << Store, rbdCommandInput, Mutex, crashed, list, todo, input,
                    mirrorStatus, arg, pre, gets, cmds, wrote, resolved, limit,
                    answers, result, overtaken, bootVars, toolsVars >>

\* Line 252
DeleteLock(t) ==
    /\ ~crashed
    /\ pc[t] = "del_lock"
    /\ Lock(t)
    /\ pc' = [pc EXCEPT ![t] = "del_store"]
    /\ UNCHANGED << Store, rbdCommandInput, crashed, top, obj, list, todo,
                    input, mirrorStatus, ret, arg, pre, gets, cmds, wrote,
                    resolved, limit,
                    answers, result, overtaken, bootVars, toolsVars >>

\* Lines 255-257, and the deferred Unlock
DeleteStore(t) ==
    /\ ~crashed
    /\ pc[t] = "del_store"
    /\ Store' = Remove(Store, obj[t].uid)
    /\ wrote' = [wrote EXCEPT ![t] =
                    IF obj[t].uid \in DOMAIN Store THEN "removed" ELSE "none"]
    /\ Unlock(t)
    /\ Returns(t, "nil")
    /\ overtaken' = [x \in Threads |->
                       IF x # t /\ InAdd(x) /\ obj[x].uid = obj[t].uid
                       THEN [overtaken[x] EXCEPT !.yes = TRUE]
                       ELSE overtaken[x]]
    /\ UNCHANGED << rbdCommandInput, crashed, top, obj, list, todo, input,
                    mirrorStatus, arg, pre, gets, cmds, resolved, limit,
                    answers, result, bootVars, toolsVars >>

\* ---------------------------------------------------------------- Replace
Replace(t) ==
    /\ CanCall(t)
    /\ \E l \in EventLists :
         /\ list' = [list EXCEPT ![t] = l]
         /\ arg' = [arg EXCEPT ![t] = l]
    /\ top' = [top EXCEPT ![t] = "Replace"]
    /\ pc' = [pc EXCEPT ![t] = "rep_lock"]
    /\ overtaken' = [x \in Threads |->
                       IF x # t /\ InAdd(x)
                       THEN [overtaken[x] EXCEPT !.seen = @ \cup {t}]
                       ELSE overtaken[x]]
    /\ UNCHANGED << Store, rbdCommandInput, Mutex, crashed, obj, todo, input,
                    mirrorStatus, ret, pre, gets, cmds, wrote, resolved, limit,
                    answers, result, bootVars, toolsVars >>

\* Line 277
ReplaceLock(t) ==
    /\ ~crashed
    /\ pc[t] = "rep_lock"
    /\ Lock(t)
    /\ pc' = [pc EXCEPT ![t] = "rep_clear"]
    /\ UNCHANGED << Store, rbdCommandInput, crashed, top, obj, list, todo,
                    input, mirrorStatus, ret, arg, pre, gets, cmds, wrote,
                    resolved, limit,
                    answers, result, overtaken, bootVars, toolsVars >>

\* Lines 278-279
ReplaceClear(t) ==
    /\ ~crashed
    /\ pc[t] = "rep_clear"
    /\ Store' = EmptyMap
    /\ Unlock(t)
    /\ pc' = [pc EXCEPT ![t] = "rep_loop"]
    /\ overtaken' = [x \in Threads |->
                       IF InAdd(x) /\ t \in overtaken[x].seen
                       THEN [overtaken[x] EXCEPT !.yes = TRUE]
                       ELSE overtaken[x]]
    /\ UNCHANGED << rbdCommandInput, crashed, top, obj, list, todo, input,
                    mirrorStatus, ret, arg, pre, gets, cmds, wrote, resolved,
                    limit, answers, result, bootVars, toolsVars >>

\* Lines 281-288: the next item goes to Add, or the list is done
ReplaceLoop(t) ==
    /\ ~crashed
    /\ pc[t] = "rep_loop"
    /\ IF list[t] = <<>>
       THEN /\ Returns(t, "nil")
            /\ UNCHANGED << Store, rbdCommandInput, Mutex, crashed, top, obj,
                            list, todo, input, mirrorStatus, arg, pre, gets,
                            cmds, wrote, resolved, limit,
                    answers, result, overtaken, bootVars, toolsVars >>
       ELSE AddBody(t, "Replace", Head(list[t]), Tail(list[t]), arg[t])

\* ------------------------------------------- List, ListKeys, Get, GetByKey
\* The read method is called with argument o and returns at once.
ReadReturns(t, method, o, items, got) ==
    /\ CanCall(t)
    /\ top' = [top EXCEPT ![t] = method]
    /\ obj' = [obj EXCEPT ![t] = o]
    /\ result' = [result EXCEPT ![t] =
                 [items |-> items, item |-> got.item, exists |-> got.exists]]
    /\ Returns(t, got.err)
    /\ UNCHANGED << Store, rbdCommandInput, Mutex, crashed, list, todo, input,
                    mirrorStatus, arg, pre, gets, cmds, wrote, resolved, limit,
                    answers, overtaken, bootVars, toolsVars >>

ListCall(t) == ReadReturns(t, "List", NoObj, List, Get(NoObj))
ListKeysCall(t) == ReadReturns(t, "ListKeys", NoObj, ListKeys, Get(NoObj))
GetCall(t) == \E o \in Events : ReadReturns(t, "Get", o, <<>>, Get(o))
GetByKeyCall(t) ==
    \E key \in UIDs :
        ReadReturns(t, "GetByKey", [NoObj EXCEPT !.uid = key], <<>>, GetByKey(key))

\* ----------------------------------------------------------------- Resync
Resync(t) ==
    /\ CanCall(t)
    /\ top' = [top EXCEPT ![t] = "Resync"]
    /\ pc' = [pc EXCEPT ![t] = "rs_lock"]
    /\ UNCHANGED << Store, rbdCommandInput, Mutex, crashed, obj, list, todo,
                    input, mirrorStatus, ret, arg, pre, gets, cmds, wrote,
                    resolved, limit,
                    answers, result, overtaken, bootVars, toolsVars >>

\* ResyncLock that reads the keys under the mutex and gives it back before
\* the loop.
ResyncLockReleases(t) ==
    /\ ~crashed
    /\ pc[t] = "rs_lock"
    /\ Mutex = None
    /\ todo' = [todo EXCEPT ![t] = DOMAIN Store]
    /\ pre' = Store
    /\ pc' = [pc EXCEPT ![t] = "rs_loop"]
    /\ UNCHANGED << Store, rbdCommandInput, Mutex, crashed, top, obj, list,
                    input, mirrorStatus, ret, arg, gets, cmds, wrote, resolved,
                    limit,
                    answers, result, overtaken, bootVars, toolsVars >>

\* Lines 293-296: the mutex is taken for the whole sweep; the range loop
\* will visit the keys the map has now.
ResyncLock(t) ==
    /\ ~crashed
    /\ pc[t] = "rs_lock"
    /\ Lock(t)
    /\ todo' = [todo EXCEPT ![t] = DOMAIN Store]
    /\ pre' = Store
    /\ pc' = [pc EXCEPT ![t] = "rs_loop"]
    /\ UNCHANGED << Store, rbdCommandInput, crashed, top, obj, list, input,
                    mirrorStatus, ret, arg, gets, cmds, wrote, resolved, limit,
                    answers, result, overtaken, bootVars, toolsVars >>

\* Lines 296-297: the range loop takes a record in no fixed order and looks
\* into the map of command inputs; after the last one Resync returns nil
\* (line 318, and the deferred Unlock).
ResyncLoop(t) ==
    /\ ~crashed
    /\ pc[t] = "rs_loop"
    /\ IF todo[t] = {}
       THEN /\ Unlock(t)
            /\ Returns(t, "nil")
            /\ obj' = [obj EXCEPT ![t] = NoObj]
            /\ pre' = EmptyMap
            /\ answers' = [answers EXCEPT ![t] = <<>>]
            /\ UNCHANGED << Store, rbdCommandInput, crashed, top, list, todo,
                            input, mirrorStatus, arg, gets, cmds, wrote,
                            resolved, limit, result, overtaken, bootVars, toolsVars >>
       ELSE \E poolUUID \in todo[t] :
              LET poolStatusVerbose == Store[poolUUID] IN
              \E r \in MapRead(t, poolStatusVerbose.PoolNamespace) :
                IF r.crash THEN Die
                ELSE /\ obj' = [obj EXCEPT ![t] =
                                  Pool(poolUUID, poolStatusVerbose.PoolName,
                                       poolStatusVerbose.PoolNamespace, TRUE)]
                     /\ todo' = [todo EXCEPT ![t] = @ \ {poolUUID}]
                     /\ pc' = [pc EXCEPT ![t] = IF r.ok THEN "exec" ELSE "wrci"]
                     /\ answers' = [answers EXCEPT ![t] = <<>>]
                     /\ UNCHANGED << Store, rbdCommandInput, Mutex, crashed,
                                     top, list, input, mirrorStatus, ret, arg,
                                     pre, gets, cmds, wrote, resolved, limit,
                                     result, overtaken, bootVars, toolsVars >>

\* ------------------------------------------------------ the specification
Next ==
    \E t \in Threads :
        \/ Add(t) \/ Update(t) \/ Delete(t) \/ Replace(t) \/ Resync(t)
        \/ ListCall(t) \/ ListKeysCall(t) \/ GetCall(t) \/ GetByKeyCall(t)
        \/ Resolve(t) \/ ResolveStore(t) \/ Exec(t)
        \/ CommandReturns(t) \/ AddLock(t) \/ AddStore(t)
        \/ DeleteLock(t) \/ DeleteStore(t)
        \/ ReplaceLock(t) \/ ReplaceClear(t) \/ ReplaceLoop(t)
        \/ ResyncLock(t) \/ ResyncLoop(t)
        \/ Return(t)

\* Concurrent calls
NextBoot ==
    \/ writeCephConfig \/ createCephConfigRoot \/ StatCephConfig
    \/ WriteCephConfigFile \/ createKeyRingFile \/ BootReturn
NextTools == ensureToolsDeployment \/ ClusterChanges

Spec == Init /\ [][Next]_vars
SpecBoot == InitBoot /\ [][NextBoot]_vars
SpecTools == InitTools /\ [][NextTools]_vars
\* One call at a time
SpecSerial == InitSerial /\ [][Next]_vars

\* The steps of a call in progress on thread t.
Internal(t) ==
    \/ Resolve(t) \/ ResolveStore(t) \/ Exec(t)
    \/ CommandReturns(t) \/ AddLock(t) \/ AddStore(t)
    \/ DeleteLock(t) \/ DeleteStore(t)
    \/ ReplaceLock(t) \/ ReplaceClear(t) \/ ReplaceLoop(t)
    \/ ResyncLock(t) \/ ResyncLoop(t)
    \/ Return(t)
\* The rbd command of thread t returns a status.
CommandSucceeds(t) ==
    CommandReturns(t) /\ cmds'[t][Len(cmds'[t])].out \in Healths
\* A call in progress goes on to its return; the reflector calls Resync
\* again and again; and the rbd command does not fail for ever.
Retrying ==
    /\ WF_vars(\E t \in Threads : Internal(t))
    /\ SF_vars(\E t \in Threads : Resync(t))
    /\ SF_vars(\E t \in Threads : CommandSucceeds(t))
\* One call at a time, with Resync run repeatedly
SpecRetry == InitSerial /\ [][Next]_vars /\ Retrying

\* Thread t comes out of s.Mutex.Lock().
Acquire(t) == AddLock(t) \/ DeleteLock(t) \/ ReplaceLock(t) \/ ResyncLock(t)
\* Every goroutine goes on running, every lookup and command returns, and a
\* goroutine waiting in Lock is not passed over for ever (sync.Mutex hands
\* the mutex to a waiter that has starved).
Scheduled ==
    \A t \in Threads : WF_vars(Internal(t)) /\ SF_vars(Acquire(t))
\* The concurrent calls whose scheduling is looked at: every method, on the
\* one pool the goroutines contend for.
LiveEvents == { Pool("u1", "p1", "ns1", TRUE) }
Delivers(t) == obj'[t] \in LiveEvents
NextLive ==
    \E t \in Threads :
        \/ Add(t) /\ Delivers(t)
        \/ Update(t) /\ Delivers(t)
        \/ Delete(t) /\ Delivers(t)
        \/ Replace(t) \/ Resync(t)
        \/ ListCall(t) \/ ListKeysCall(t)
        \/ GetCall(t) /\ Delivers(t)
        \/ GetByKeyCall(t)
        \/ Internal(t)
\* Concurrent calls under that scheduling
SpecLive == Init /\ [][NextLive]_vars /\ Scheduled

\* ------------------------------------------------------------ properties
Last(s) == s[Len(s)]
\* Thread t takes the step.
Moves(t) == << pc[t], list[t], todo[t] >> # << pc'[t], list'[t], todo'[t] >>
\* The step starts an Add of object o on thread t: the call of Add or
\* Update, or the loop of Replace handing its next item to Add.
StartsAdd(t) ==
    \/ pc[t] = "idle" /\ top'[t] = "Add"
    \/ pc[t] = "rep_loop" /\ list[t] # <<>> /\ Moves(t)

\* C1: an Add (or Update) of a mirroring-enabled pool whose status fetch
\* succeeds goes on to the store step, and the store step returns nil and
\* leaves Store with exactly the record {pool name, pool namespace, fetched
\* status} under the pool's UID, all other records as they were.
C1_AddStoresRecord ==
    [][\A t \in Threads :
         LET o == obj[t] IN
         /\ ( /\ pc[t] = "cmd" /\ pc'[t] # "cmd" /\ top[t] # "Resync"
              /\ Last(cmds'[t]).out \in Healths )
            => pc'[t] = "add_lock"
         /\ pc[t] = "add_lock" => pc'[t] \in {"add_lock", "add_store"}
         /\ (pc[t] = "add_store" /\ pc'[t] # "add_store")
            => /\ o.kind = "pool" /\ o.enabled /\ o.ns \in {"ns1", "ns2"}
               /\ Last(cmds[t]).out \in Healths
               /\ IF top[t] = "Replace" THEN pc'[t] = "rep_loop"
                  ELSE pc'[t] = "done" /\ ret'[t] = "nil"
               /\ DOMAIN Store' = DOMAIN Store \cup {o.uid}
               /\ Store'[o.uid] = [PoolName |-> o.name, PoolNamespace |-> o.ns,
                                   MirrorStatus |-> Last(cmds[t]).out]
               /\ \A u \in DOMAIN Store \ {o.uid} : Store'[u] = Store[u]
    ]_vars

\* An Add has returned nil after replacing, while another UID has a record,
\* the record of u1 by one that differs from what ns1 pools get in name and
\* namespace.
C1_Witness ==
    \E t \in Threads :
        /\ pc[t] = "done" /\ top[t] = "Add" /\ ret[t] = "nil"
        /\ wrote[t] = "replaced"
        /\ obj[t] = Pool("u1", "p2", "ns2", TRUE)
        /\ "u2" \in DOMAIN Store
        /\ Store["u1"] = [PoolName |-> "p2", PoolNamespace |-> "ns2",
                          MirrorStatus |-> "WARNING"]

\* C2: when Add or Update returns an error, no step of the call has changed
\* Store: the returning step leaves Store as it is, the call has not been
\* through the store step, and no other step of an Add changes Store.
C2_FailedAddLeavesStore ==
    [][\A t \in Threads :
         /\ ( /\ pc[t] # "done" /\ pc'[t] = "done"
              /\ top'[t] \in {"Add", "Replace"} /\ ret'[t] # "nil" )
            => Store' = Store /\ wrote'[t] = "none"
         /\ ( /\ Moves(t) /\ top'[t] \in {"Add", "Replace"}
              /\ pc[t] \notin {"add_store", "rep_clear"} )
            => Store' = Store
    ]_vars

\* An Add for a UID that has a record under another name has returned the
\* error of the status command, and the record is still there.
C2_Witness ==
    \E t \in Threads :
        /\ pc[t] = "done" /\ top[t] = "Add"
        /\ ret[t] \in {"CommandExecutionError", "ResponseParseError"}
        /\ obj[t].uid \in DOMAIN Store
        /\ Store[obj[t].uid].PoolName # obj[t].name

\* C3: an Add (or Update) of a pool with mirroring disabled returns nil in
\* its first step, without a read of the API or an rbd command, and leaves
\* Store and the map of command inputs as they are; no Add of such a pool
\* is ever past that step.
C3_DisabledPoolIsSkipped ==
    [][\A t \in Threads :
         /\ ( /\ StartsAdd(t)
              /\ obj'[t].kind = "pool" /\ ~obj'[t].enabled )
            => /\ IF top'[t] = "Replace" THEN pc'[t] = "rep_loop"
                  ELSE pc'[t] = "done" /\ ret'[t] = "nil"
               /\ Store' = Store
               /\ rbdCommandInput' = rbdCommandInput
               /\ resolved' = resolved
               /\ gets'[t] = gets[t] /\ cmds'[t] = cmds[t]
         /\ ( /\ top[t] \in {"Add", "Replace"}
              /\ obj[t].kind = "pool" /\ ~obj[t].enabled )
            => pc[t] \in {"done", "rep_loop"}
         /\ ( /\ top[t] = "Add" /\ pc[t] = "done"
              /\ obj[t].kind = "pool" /\ ~obj[t].enabled )
            => gets[t] = <<>> /\ cmds[t] = <<>> /\ wrote[t] = "none"
    ]_vars

\* An Add of a disabled pool has returned nil with neither a read nor a
\* command, and the record its UID got earlier is still in Store.
C3_Witness ==
    \E t \in Threads :
        /\ pc[t] = "done" /\ top[t] = "Add" /\ ret[t] = "nil"
        /\ obj[t].kind = "pool" /\ ~obj[t].enabled
        /\ obj[t].uid \in DOMAIN Store
        /\ gets[t] = <<>> /\ cmds[t] = <<>>

\* C4: the store step of Delete returns nil, takes the record of the
\* object's UID out of Store when there is one and changes nothing when
\* there is none, leaves every other record and the map of command inputs
\* as they are; a Delete of an object with metadata always reaches that
\* step; and a UID without a record gets one only by the store step of an
\* Add for that UID.
C4_DeleteRemovesOnlyItsRecord ==
    [][/\ \A t \in Threads :
            /\ (pc[t] = "idle" /\ top'[t] = "Delete" /\ obj'[t].kind # "bad")
               => pc'[t] = "del_lock"
            /\ pc[t] = "del_lock" => pc'[t] \in {"del_lock", "del_store"}
            /\ (pc[t] = "del_store" /\ pc'[t] # "del_store")
               => /\ pc'[t] = "done" /\ ret'[t] = "nil"
                  /\ DOMAIN Store' = DOMAIN Store \ {obj[t].uid}
                  /\ \A u \in DOMAIN Store' : Store'[u] = Store[u]
            /\ (Moves(t) /\ top'[t] = "Delete")
               => rbdCommandInput' = rbdCommandInput
       /\ \A u \in UIDs :
            (u \notin DOMAIN Store /\ u \in DOMAIN Store')
            => \E t \in Threads :
                 pc[t] = "add_store" /\ pc'[t] # "add_store" /\ obj[t].uid = u
    ]_vars

\* A Delete has returned nil having removed the record of its UID, and the
\* record of the other UID and the cached command input are still there.
C4_Witness ==
    \E t \in Threads :
        /\ pc[t] = "done" /\ top[t] = "Delete" /\ ret[t] = "nil"
        /\ wrote[t] = "removed"
        /\ obj[t].uid \notin DOMAIN Store
        /\ DOMAIN Store # {}
        /\ rbdCommandInput # EmptyMap

\* The mirroring-enabled pools of a list, in order.
IsEnabledPool(o) == o.kind = "pool" /\ o.enabled
EnabledPools(l) == SelectSeq(l, IsEnabledPool)
\* Command k of a log was run for pool o.
RanFor(c, o) == c.uid = o.uid /\ c.pool = o.name /\ c.ns = o.ns
\* The map that holds, for the first k commands of a log, the record of the
\* pool and the status the command returned, later commands overwriting
\* earlier ones of the same UID.
RECURSIVE Built(_, _)
Built(log, k) ==
    IF k = 0 THEN EmptyMap
    ELSE LET b == Built(log, k - 1) IN
         [u \in DOMAIN b \cup {log[k].uid} |->
            IF u = log[k].uid
            THEN [PoolName |-> log[k].pool, PoolNamespace |-> log[k].ns,
                  MirrorStatus |-> log[k].out]
            ELSE b[u]]
ResolveErrors ==
    { "NotAllowedNamespace", "SecretLookupError", "SecretFieldMissing",
      "ConfigLookupError", "ConfigFieldMissing", "ConfigParseError",
      "NoClusterConfig", "NoMonitors" }
CommandErrors == { "CommandExecutionError", "ResponseParseError" }

\* C5: when a Replace that ran alone returns, Store holds nothing of what it
\* held before: if it returns nil, every item was handed to Add, one command
\* ran for each mirroring-enabled item in list order, and Store is exactly
\* the records of those items; if it returns an error, the error is that of
\* the last item handed to Add, item i, nothing was read or run for a later
\* item, and Store is exactly the records of the enabled items before i.
C5_ReplaceAbortsAtFirstError ==
    \A t \in Threads :
      (pc[t] = "done" /\ top[t] = "Replace") =>
        LET n == Len(arg[t]) - Len(list[t])
            log == cmds[t]
        IN  IF ret[t] = "nil"
            THEN LET E == EnabledPools(arg[t]) IN
                 /\ list[t] = <<>>
                 /\ Len(log) = Len(E)
                 /\ \A k \in 1..Len(E) :
                      RanFor(log[k], E[k]) /\ log[k].out \in Healths
                 /\ Store = Built(log, Len(log))
                 /\ Len(gets[t]) <= 2 * Len(E)
            ELSE /\ n >= 1
                 /\ list[t] = SubSeq(arg[t], n + 1, Len(arg[t]))
                 /\ LET E == EnabledPools(SubSeq(arg[t], 1, n - 1))
                        f == arg[t][n]
                    IN  /\ \A k \in 1..Len(E) :
                             /\ k <= Len(log)
                             /\ RanFor(log[k], E[k]) /\ log[k].out \in Healths
                        /\ Store = Built(log, Len(E))
                        /\ Len(gets[t]) <= 2 * (Len(E) + 1)
                        /\ IF ~IsEnabledPool(f)
                           THEN /\ Len(log) = Len(E)
                                /\ ret[t] = IF f.kind = "bad" THEN "AccessorError"
                                            ELSE "TypeMismatch"
                                /\ f.kind # "pool"
                           ELSE \/ Len(log) = Len(E) /\ ret[t] \in ResolveErrors
                                \/ /\ Len(log) = Len(E) + 1
                                   /\ RanFor(log[Len(log)], f)
                                   /\ log[Len(log)].out = ret[t]
                                   /\ ret[t] \in CommandErrors

\* A Replace of two enabled pools has returned the error of the second
\* pool's command, and Store holds the record of the first pool alone.
C5_Witness ==
    \E t \in Threads :
        /\ pc[t] = "done" /\ top[t] = "Replace"
        /\ ret[t] \in CommandErrors
        /\ Len(arg[t]) = 2 /\ list[t] = <<>>
        /\ arg[t][1].uid # arg[t][2].uid
        /\ DOMAIN Store = {arg[t][1].uid}
        /\ Len(cmds[t]) = 2

\* The sweep of Resync on thread t is in progress, or at its end.
Sweeping(t) ==
    top[t] = "Resync" /\ pc[t] \in {"rs_loop", "wrci", "wrci_write", "exec", "cmd"}
SweepDone(t) == top[t] = "Resync" /\ pc[t] = "rs_loop" /\ todo[t] = {}
Fetched(t, u) ==
    \E k \in 1..Len(cmds[t]) : cmds[t][k].uid = u /\ cmds[t][k].out \in Healths

\* The sweep of thread t ran the command of record u, or tried to resolve the
\* credentials of its namespace.
Attempted(t, u) ==
    \/ \E k \in 1..Len(cmds[t]) : cmds[t][k].uid = u
    \/ \E i \in 1..Len(gets[t]) : gets[t][i] = <<"secret", pre[u].PoolNamespace>>

\* C6: Resync returns nil; during and at the end of its sweep Store has the
\* keys it had when the sweep began, and every record for which no command of
\* the sweep returned a status is the record it was, whether its credentials
\* were not resolved or its command failed; at the end of the sweep every
\* record was attempted, whatever failed before it.
C6_ResyncKeepsFailedRecords ==
    \A t \in Threads :
        /\ (pc[t] = "done" /\ top[t] = "Resync") => ret[t] = "nil"
        /\ Sweeping(t) =>
             /\ DOMAIN Store = DOMAIN pre
             /\ \A u \in DOMAIN pre : ~Fetched(t, u) => Store[u] = pre[u]
        /\ SweepDone(t) =>
             \A u \in DOMAIN pre : Attempted(t, u)

\* A sweep is at its end: the command of the first record failed, the
\* command of the second record was run and succeeded, and the first record
\* is the record it was.
C6_Witness ==
    \E t \in Threads :
        /\ SweepDone(t)
        /\ Len(cmds[t]) = 2
        /\ cmds[t][1].out \in CommandErrors
        /\ cmds[t][2].out \in Healths
        /\ Store[cmds[t][1].uid] = pre[cmds[t][1].uid]

\* C7: at the end of a sweep exactly one command was run for each record
\* Store had when the sweep began, with the record's pool name, and none for
\* anything else; every record whose command returned a status has that
\* status with the pool name and namespace it had; Store has the keys it had.
C7_ResyncFetchesEachRecordOnce ==
    \A t \in Threads :
        /\ Sweeping(t) =>
             \A k \in 1..Len(cmds[t]) :
                /\ cmds[t][k].uid \in DOMAIN pre
                /\ cmds[t][k].pool = pre[cmds[t][k].uid].PoolName
                /\ \A j \in 1..Len(cmds[t]) :
                      cmds[t][j].uid = cmds[t][k].uid => j = k
        /\ SweepDone(t) =>
             /\ Len(cmds[t]) = Cardinality(DOMAIN pre)
             /\ { cmds[t][k].uid : k \in 1..Len(cmds[t]) } = DOMAIN pre
             /\ DOMAIN Store = DOMAIN pre
             /\ \A k \in 1..Len(cmds[t]) :
                  LET c == cmds[t][k] IN
                  /\ c.out # "running"
                  /\ c.out \in Healths =>
                       Store[c.uid] = [PoolName |-> pre[c.uid].PoolName,
                                       PoolNamespace |-> pre[c.uid].PoolNamespace,
                                       MirrorStatus |-> c.out]

\* A sweep over two records is at its end, and both records have the new
\* status their command returned, which is not the one they had.
C7_Witness ==
    \E t \in Threads :
        /\ SweepDone(t)
        /\ DOMAIN pre = UIDs
        /\ \A u \in UIDs :
             /\ Fetched(t, u)
             /\ Store[u].MirrorStatus # pre[u].MirrorStatus
             /\ Store[u].PoolName = pre[u].PoolName

\* Thread t is between a Lock and its Unlock: about to write the map in Add,
\* Delete or Replace, or sweeping it in Resync.
InCritical(t) == pc[t] \in {"add_store", "del_store", "rep_clear"} \/ Sweeping(t)
Waiting(t) == pc[t] \in {"add_lock", "del_lock", "rep_lock", "rs_lock"}

\* C8: in every interleaving of concurrent calls, a thread is changing or
\* sweeping Store exactly when it holds the mutex, so at most one is; and
\* every step that changes Store is a step of the thread that holds the
\* mutex, which writes one whole record, removes one, or empties the map,
\* while no other thread moves.
C8_StoreChangesUnderLock ==
    [][ /\ \A t \in Threads : (InCritical(t) <=> Mutex = t)
        /\ \A t \in Threads : (InCritical(t) <=> Mutex = t)'
        /\ Cardinality({ t \in Threads : InCritical(t) }) <= 1
        /\ Store' # Store =>
             \E t \in Threads :
                /\ Mutex = t /\ InCritical(t) /\ Moves(t)
                /\ \A x \in Threads \ {t} : pc'[x] = pc[x]
                /\ \/ Store' = EmptyMap
                   \/ \E u \in UIDs :
                        \A v \in (DOMAIN Store \cup DOMAIN Store') \ {u} :
                           /\ v \in DOMAIN Store /\ v \in DOMAIN Store'
                           /\ Store'[v] = Store[v]
      ]_vars

\* One thread holds the mutex and is about to write its record while the
\* other, whose command has returned too, waits for the mutex.
C8_Witness ==
    \E t \in Threads, x \in Threads :
        /\ t # x
        /\ pc[t] = "add_store" /\ Mutex = t
        /\ pc[x] = "add_lock"
        /\ obj[t].uid = obj[x].uid

\* While the command of thread t runs, t holds the mutex.
HoldsLockDuringCommand(t) == pc[t] = "cmd" => Mutex = t

\* C9 as the specification has it: every invocation whose status command has
\* not returned holds the mutex.
C9_CommandRunsUnderLock == \A t \in Threads : HoldsLockDuringCommand(t)

\* C9, amended: of the invocations whose status command has not returned,
\* those of Resync hold the mutex and those of Add, Update and Replace do
\* not; while a command of Resync runs no step changes Store or passes the
\* mutex on, and every other thread that needs the mutex stays where it is.
C9_OnlyResyncHoldsLockDuringCommand ==
    [][ \A t \in Threads :
          /\ pc[t] = "cmd" => (Mutex = t <=> top[t] = "Resync")
          /\ (pc[t] = "cmd" => (Mutex = t <=> top[t] = "Resync"))'
          /\ (pc[t] = "cmd" /\ top[t] = "Resync" /\ pc'[t] = "cmd") =>
                /\ Store' = Store
                /\ Mutex' = t
                /\ \A x \in Threads : Waiting(x) => pc'[x] = pc[x]
      ]_vars

\* A command of Resync is running under the mutex, and the other thread, an
\* Add whose own command ran and returned without the mutex, waits for it.
C9_Witness ==
    \E t \in Threads, x \in Threads :
        /\ pc[t] = "cmd" /\ top[t] = "Resync" /\ Mutex = t
        /\ pc[x] = "add_lock" /\ top[x] = "Add"
        /\ Len(cmds[x]) = 1

\* C10: the secret and the configuration of a namespace are looked up
\* with success at most once, whatever the interleaving of the calls.
C10_ResolvedOncePerNamespace ==
    \A namespace \in Namespaces : resolved[namespace] <= 1

\* The answers a of the two API reads are those of a secret with the key
\* "ceph-secret" and of a configuration that decodes to a sequence whose
\* first record has a monitor.
ValidAnswers(a) ==
    /\ Len(a) = 2
    /\ a[1].found /\ a[1].haskey
    /\ a[2].found /\ a[2].haskey /\ a[2].data.json
    /\ Len(a[2].data.doc) >= 1
    /\ Len(a[2].data.doc[1]) >= 1
\* The step is the check of the map of line 217 or 297 on thread t.
ChecksMap(t) ==
    /\ pc[t] \in {"idle", "rep_loop", "rs_loop"}
    /\ pc'[t] \in {"wrci", "exec"}

\* C11: with calls arriving one at a time, a lookup for an allowed namespace
\* whose answers are valid succeeds with the input (first monitor of the
\* first record, "admin", the secret's value) and the assignment caches
\* exactly that input for the namespace and changes no other entry; a cached
\* input is never changed; and an operation that finds the namespace cached
\* makes no lookup and runs its command with the cached input.
C11_ResolveCachesFirstMonitor ==
    [][\A t \in Threads :
         LET ns == obj[t].ns
             a == answers'[t]
         IN
         /\ (pc[t] = "wrci" /\ Moves(t) /\ Allowed(ns) /\ ValidAnswers(a)
                /\ Len(a) = 2)
            => /\ pc'[t] = "wrci_write"
               /\ input'[t] = [monitor |-> a[2].data.doc[1][1], id |-> "admin",
                               key |-> a[1].key]
               /\ rbdCommandInput' = rbdCommandInput
         /\ (pc[t] = "wrci_write" /\ Moves(t))
            => /\ ValidAnswers(answers[t])
               /\ DOMAIN rbdCommandInput' = DOMAIN rbdCommandInput \cup {ns}
               /\ rbdCommandInput'[ns] =
                     [monitor |-> answers[t][2].data.doc[1][1], id |-> "admin",
                      key |-> answers[t][1].key]
               /\ \A x \in DOMAIN rbdCommandInput \ {ns} :
                     rbdCommandInput'[x] = rbdCommandInput[x]
         /\ \A x \in DOMAIN rbdCommandInput :
               x \in DOMAIN rbdCommandInput' /\ rbdCommandInput'[x] = rbdCommandInput[x]
         /\ (ChecksMap(t) /\ obj'[t].ns \in DOMAIN rbdCommandInput)
            => pc'[t] = "exec" /\ gets'[t] = gets[t]
         /\ (pc[t] = "exec" /\ Moves(t) /\ ns \in DOMAIN rbdCommandInput)
            => /\ pc'[t] = "cmd" /\ gets'[t] = gets[t]
               /\ Last(cmds'[t]).in = rbdCommandInput[ns]
    ]_vars

\* A second Add for namespace ns1 runs its command with the input cached by
\* the first: the monitor "m2" that came first in a first record of two
\* monitors, "admin" and the secret's value; it has made no API read.
C11_Witness ==
    \E t \in Threads :
        /\ pc[t] = "cmd" /\ top[t] = "Add" /\ obj[t].ns = "ns1"
        /\ gets[t] = <<>>
        /\ resolved["ns1"] = 1
        /\ rbdCommandInput["ns1"] = [monitor |-> "m2", id |-> "admin", key |-> "k1"]
        /\ Last(cmds[t]).in = rbdCommandInput["ns1"]
        /\ \E u \in DOMAIN Store : u # obj[t].uid /\ Store[u].PoolNamespace = "ns1"

\* The error WithRBDCommandInput returns for an allowed namespace when the
\* answers a of its API reads are not valid.
CauseOf(a) ==
    IF ~a[1].found THEN "SecretLookupError"
    ELSE IF ~a[1].haskey THEN "SecretFieldMissing"
    ELSE IF ~a[2].found THEN "ConfigLookupError"
    ELSE IF ~a[2].haskey THEN "ConfigFieldMissing"
    ELSE IF ~a[2].data.json THEN "ConfigParseError"
    ELSE IF Len(a[2].data.doc) = 0 THEN "NoClusterConfig"
    ELSE "NoMonitors"

\* C12: with calls arriving one at a time, a lookup for an allowed namespace
\* that fails (secret or key missing, configuration or key missing, not
\* decodable, no record, no monitor) returns the error of its cause, leaves
\* the map of inputs as it was, without the namespace, runs no command and
\* leaves Store; every operation that finds the namespace missing from the
\* map makes the lookup, from the secret on; and the lookup succeeds
\* whenever its answers are valid, whatever failed before.
C12_FailedResolveIsNotCached ==
    [][\A t \in Threads :
         LET ns == obj[t].ns
             a == answers'[t]
         IN
         /\ (pc[t] = "wrci" /\ Moves(t) /\ Allowed(ns))
            => /\ Len(a) >= 1
               /\ gets'[t] = gets[t] \o
                    (IF a[1].found /\ a[1].haskey
                     THEN << <<"secret", ns>>, <<"configmap", ns>> >>
                     ELSE << <<"secret", ns>> >>)
               /\ Len(a) = (IF a[1].found /\ a[1].haskey THEN 2 ELSE 1)
               /\ ValidAnswers(a) <=> pc'[t] = "wrci_write"
         /\ (pc[t] = "wrci" /\ Moves(t) /\ Allowed(ns) /\ ~ValidAnswers(a))
            => /\ rbdCommandInput' = rbdCommandInput
               /\ ns \notin DOMAIN rbdCommandInput'
               /\ pc'[t] = "done" /\ ret'[t] = CauseOf(a)
               /\ Store' = Store /\ cmds' = cmds
         /\ (ChecksMap(t) /\ obj'[t].ns \notin DOMAIN rbdCommandInput)
            => pc'[t] = "wrci"
    ]_vars

\* An Add for namespace ns2 has returned NoMonitors after reading the secret
\* and the configuration; ns2 has no input in the map, which has one for ns1.
C12_Witness ==
    \E t \in Threads :
        /\ pc[t] = "done" /\ top[t] = "Add" /\ obj[t].ns = "ns2"
        /\ ret[t] = "NoMonitors"
        /\ gets[t] = << <<"secret", "ns2">>, <<"configmap", "ns2">> >>
        /\ DOMAIN rbdCommandInput = {"ns1"}
        /\ cmds[t] = <<>>

\* The namespaces of the allow-list.
AllowList == Range(allowedNamespaces)
IsFetching(t) == pc[t] \in {"wrci_write", "exec", "cmd", "add_lock", "add_store"}

\* C13: with calls arriving one at a time, an Add of a mirroring-enabled
\* pool whose namespace is not in the allow-list goes to the lookup, and the
\* lookup fails with NotAllowedNamespace without an API read, without
\* changing the map of inputs or Store and without a command; no operation
\* gets past the lookup for such a namespace, and neither map ever holds one.
C13_NamespaceNotAllowed ==
    [][\A t \in Threads :
         /\ (StartsAdd(t) /\ IsEnabledPool(obj'[t]) /\ obj'[t].ns \notin AllowList)
            => pc'[t] = "wrci"
         /\ (pc[t] = "wrci" /\ Moves(t) /\ obj[t].ns \notin AllowList)
            => /\ pc'[t] = "done" /\ ret'[t] = "NotAllowedNamespace"
               /\ gets'[t] = gets[t] /\ answers'[t] = <<>>
               /\ cmds'[t] = cmds[t]
               /\ rbdCommandInput' = rbdCommandInput
               /\ Store' = Store
         /\ IsFetching(t)' => obj'[t].ns \in AllowList
         /\ DOMAIN rbdCommandInput' \subseteq AllowList
         /\ \A u \in DOMAIN Store' : Store'[u].PoolNamespace \in AllowList
    ]_vars

\* An Add of the enabled pool of ns3, which is not allowed, has returned
\* NotAllowedNamespace: no API read, no command, no record for its UID,
\* while the other UID has a record.
C13_Witness ==
    \E t \in Threads :
        /\ pc[t] = "done" /\ top[t] = "Add"
        /\ obj[t] = Pool("u2", "p1", "ns3", TRUE)
        /\ ret[t] = "NotAllowedNamespace"
        /\ gets[t] = <<>> /\ cmds[t] = <<>>
        /\ DOMAIN Store = {"u1"}
        /\ "ns3" \notin DOMAIN rbdCommandInput

\* An Add or Update of the pool with UID u has just returned the error of
\* its status command.
FetchFailed(u) ==
    \E t \in Threads :
        /\ pc[t] = "done" /\ top[t] = "Add"
        /\ IsEnabledPool(obj[t]) /\ obj[t].uid = u
        /\ ret[t] \in CommandErrors
\* A further event that may be for the pool with UID u is being handled.
FurtherEvent(u) ==
    \E t \in Threads :
        /\ pc[t] \notin {"idle", "done"}
        /\ \/ top[t] \in {"Add", "Delete"} /\ obj[t].uid = u
           \/ top[t] = "Replace"

\* C14: with Resync run again and again and the status command not failing
\* for ever, whenever the status command of an Add or Update of an enabled
\* pool has failed, the pool gets a record in Store, unless a further event
\* for it arrives first.
C14_FailedFetchIsRetried ==
    \A u \in UIDs : FetchFailed(u) ~> (u \in DOMAIN Store \/ FurtherEvent(u))

\* The two files of writeCephConfig.
BootFiles == {"conf", "keyring"}
\* writeCephConfig is running.
Booting == boot.pc \notin {"idle", "returned"}

\* C15: on any files, no step of writeCephConfig changes or removes a
\* config file or keyring file that is there, or the directory; a step that
\* changes the files makes one thing that was missing, the config file with
\* the fixed content when it is written; a run that returns nil leaves all
\* three; and a run after a run that returned nil changes nothing, as does
\* every run where the directory's path is taken by something else.
C15_BootstrapNeverOverwrites ==
    [][ /\ \A f \in BootFiles : fs[f] # Absent => fs'[f] = fs[f]
        /\ fs.root # Absent => fs'.root = fs.root
        /\ fs' # fs =>
             /\ Booting
             /\ \/ /\ fs.root = Absent /\ fs'.root = "dir"
                   /\ \A f \in BootFiles : fs'[f] = fs[f]
                \/ /\ fs.conf = Absent /\ fs'.conf \in {cephConfig, ""}
                   /\ boot'.err = "none" => fs'.conf = cephConfig
                   /\ fs'.root = fs.root /\ fs'.keyring = fs.keyring
                \/ /\ fs.keyring = Absent /\ fs'.keyring = ""
                   /\ fs'.root = fs.root /\ fs'.conf = fs.conf
        /\ (boot'.pc = "returned" /\ boot'.err = "nil") =>
             /\ fs'.root = "dir"
             /\ \A f \in BootFiles : fs'[f] # Absent
             /\ \A f \in BootFiles : boot'.before[f] # Absent => fs'[f] = boot'.before[f]
        /\ (boot.clean /\ Booting) => fs' = fs /\ fs = boot.before
        /\ fs.root = "file" => fs' = fs
      ]_vars

\* A second run, after a first that returned nil, has come to the keyring
\* with the files as the first run left them: the config file another
\* program wrote, kept, and the keyring the first run made.
C15_Witness ==
    /\ boot.pc = "keyring" /\ boot.calls = 2 /\ boot.clean
    /\ fs = [root |-> "dir", conf |-> "other", keyring |-> ""]
    /\ boot.before = fs

ReadMethods == {"List", "ListKeys", "Get", "GetByKey"}

\* C16: in every state the concurrent calls reach, a call of List, ListKeys,
\* Get or GetByKey returns at once, whatever its argument and whatever Store
\* holds: no items, no item, exists false and no error; and it leaves Store,
\* the map of inputs and the mutex as they are.
C16_ReadsReturnNothing ==
    [][\A t \in Threads :
         (pc[t] = "idle" /\ top'[t] \in ReadMethods)
         => /\ pc'[t] = "done" /\ ret'[t] = "nil"
            /\ result'[t].items = <<>>
            /\ result'[t].item = NoItem
            /\ ~result'[t].exists
            /\ Store' = Store
            /\ rbdCommandInput' = rbdCommandInput
            /\ Mutex' = Mutex
    ]_vars

\* Get has returned not-found for the pool with UID u1 while Store holds the
\* record of u1 and the other thread, in an Add, holds the mutex.
C16_Witness ==
    \E t \in Threads, x \in Threads :
        /\ pc[t] = "done" /\ top[t] = "Get"
        /\ obj[t] = Pool("u1", "p1", "ns1", TRUE)
        /\ "u1" \in DOMAIN Store /\ Store["u1"].PoolName = "p1"
        /\ ~result[t].exists
        /\ Mutex = x /\ pc[x] = "add_store"

\* C17: in any interleaving of concurrent calls, an Add that began before a
\* Delete of its UID returned, or before a Replace cleared the map, writes
\* no record afterwards.
C17_OvertakenAddWritesNothing ==
    [][\A t \in Threads : overtaken[t].yes => wrote'[t] = "none"]_vars

\* Every record's namespace is allowed and has a cached input, and every
\* cached namespace is allowed.
RecordsHaveInput ==
    /\ \A u \in DOMAIN Store :
         /\ Store[u].PoolNamespace \in AllowList
         /\ Store[u].PoolNamespace \in DOMAIN rbdCommandInput
    /\ DOMAIN rbdCommandInput \subseteq AllowList

\* Resync on thread t has made no API read and is not in WithRBDCommandInput.
SweepsWithoutLookup(t) ==
    top[t] = "Resync" => gets[t] = <<>> /\ pc[t] \notin {"wrci", "wrci_write"}

\* C18: in every reachable state every record of Store has a PoolNamespace
\* that is in the allow-list and has an entry in the map of inputs, every key
\* of that map is an allowed namespace, no step removes an entry of that map,
\* and a Resync sweep never reads a secret or a config map.
C18_RecordsKeepTheirInput ==
    /\ RecordsHaveInput
    /\ [][/\ RecordsHaveInput'
          /\ DOMAIN rbdCommandInput \subseteq DOMAIN rbdCommandInput'
          /\ \A t \in Threads : SweepsWithoutLookup(t)']_vars

\* Thread t has a call in progress.
Running(t) == pc[t] \notin {"idle", "done"}

\* C19: in any interleaving of concurrent calls in which every lookup and
\* command returns, every call in progress comes to its return unless the
\* process dies of a fatal error first; a call that has returned does not hold
\* the mutex; and a thread comes to hold the mutex only by a Lock it was
\* waiting in while the mutex was free, never while holding it already.
C19_EveryCallReturnsUnlocked ==
    /\ [][\A t \in Threads :
            /\ ~Running(t)' => Mutex' # t
            /\ Waiting(t)' => Mutex' # t
            /\ (Mutex # t /\ Mutex' = t) => (Mutex = None /\ Waiting(t))]_vars
    /\ \A t \in Threads : Running(t) ~> (pc[t] = "done" \/ crashed)

\* Both threads have returned, from an Add that stored its record and from a
\* Resync; the mutex is free.
C19_Witness ==
    /\ \A t \in Threads : pc[t] = "done" /\ ret[t] = "nil"
    /\ \E t \in Threads : top[t] = "Add" /\ wrote[t] # "none"
    /\ \E t \in Threads : top[t] = "Resync" /\ cmds[t] # <<>>
    /\ Mutex = None

\* The step is a call of ensureToolsDeployment: a change of the cluster by
\* someone else leaves it unsettled.
Ensures == recon'.settled \/ cluster' = cluster

\* C20: a call that succeeds leaves, when the toolbox is enabled on the
\* StorageCluster or on ocsinit, a deployment with the desired spec (created
\* if there was none, updated if its spec differed, not written if equal),
\* and otherwise, a missing ocsinit counting as off, no deployment (deleted
\* if there was one, not written if none); a call sends at most one write and
\* changes nothing but the deployment; a call repeating a successful one on
\* an unchanged cluster sends none; and a Get that fails with an error other
\* than NotFound returns that error with no write.
C20_ToolsConvergeInOneCall ==
    [][Ensures =>
         LET c == cluster
             r == recon'
             on == c.enable \/ c.ocsinit = "on"
         IN
         /\ [cluster' EXCEPT !.deployment = c.deployment] = c
         /\ r.fault = "none" => r.err = "nil"
         /\ (r.err = "nil" /\ on)
            => /\ cluster'.deployment = c.desired
               /\ r.write = IF c.deployment = Absent THEN "create"
                            ELSE IF c.deployment # c.desired THEN "update"
                            ELSE "none"
         /\ (r.err = "nil" /\ ~on)
            => /\ cluster'.deployment = Absent
               /\ r.write = IF c.deployment # Absent THEN "delete" ELSE "none"
         /\ r.write \in {"none", "create", "update", "delete"}
         /\ r.sent <=> r.write # "none"
         /\ r.err # "nil" => cluster' = c
         /\ recon.settled => (r.write = "none" /\ cluster' = c)
         /\ r.fault = "GetDeployment"
            => r.err = "GetDeploymentError" /\ r.write = "none"
         /\ r.fault = "GetOCSInit"
            => r.err = "GetOCSInitError" /\ r.write = "none"]_vars

\* A call has repeated a successful call on an unchanged cluster whose
\* toolbox is enabled on ocsinit only: it succeeded without a write, and the
\* deployment has the desired spec.
C20_Witness ==
    /\ recon.again /\ recon.err = "nil" /\ recon.write = "none"
    /\ ~cluster.enable /\ cluster.ocsinit = "on"
    /\ cluster.desired = "spec2" /\ cluster.deployment = "spec2"

====
